---- MODULE Spec2Model ----
(***************************************************************************)
(* A model of cryptoprice.py: the CryptoData client (construction, the     *)
(* request URL, parse_api_data_text, build_dataframe, save_data), the      *)
(* run() pipeline under the @retry decorator, and the command line entry.  *)
(***************************************************************************)
EXTENDS Integers, Sequences, FiniteSets, TLC

VARIABLES
    pc,         \* "new" | "idle" | "running" | "returned" | "raised"
    viaCLI,     \* the client was built by the __main__ block
    tz,         \* offset of the local time zone from UTC, in seconds
    now,        \* the clock read when the program starts (unix seconds)
    self,       \* the client's configuration fields and url
    data,       \* self.data: None, or the dataframe
    file,       \* what is stored at self.destination
    save,       \* the save argument of the run() call in progress
    attempt,    \* attempts the retry wrapper has made in this run() call
    fails,      \* how many of them raised
    calls,      \* run() calls made on this client
    response,   \* the response of the last requests.get
    parsed,     \* outcome of the last parse_api_data_text call
    stages,     \* the methods the last attempt called, in order
    gets,       \* HTTP GETs issued in this run() call
    writes,     \* completed or started file writes in this run() call
    lastErr,    \* the exception of the last attempt
    error,      \* the exception run() raised to its caller
    result      \* the value run() returned to its caller

vars == <<pc, viaCLI, tz, now, self, data, file, save, attempt, fails, calls,
          response, parsed, stages, gets, writes, lastErr, error, result>>

----------------------------------------------------------------------------
(* Bounds of the model *)

\* longest JSON array of candles a response carries
MaxLen == 3
\* run() calls made on one client
MaxCalls == 2

----------------------------------------------------------------------------
(* Program constants *)

AVAILABLE_CURRENCY_PAIRS == <<
    "BTC_AMP", "BTC_ARDR", "BTC_BCH", "BTC_BCN", "BTC_BCY", "BTC_BELA", "BTC_BLK",
    "BTC_BTCD", "BTC_BTM", "BTC_BTS", "BTC_BURST", "BTC_CLAM", "BTC_CVC", "BTC_DASH",
    "BTC_DCR", "BTC_DGB", "BTC_DOGE", "BTC_EMC2", "BTC_ETC", "BTC_ETH", "BTC_EXP",
    "BTC_FCT", "BTC_FLDC", "BTC_FLO", "BTC_GAME", "BTC_GAS", "BTC_GNO", "BTC_GNT",
    "BTC_GRC", "BTC_HUC", "BTC_LBC", "BTC_LSK", "BTC_LTC", "BTC_MAID", "BTC_NAV",
    "BTC_NEOS", "BTC_NMC", "BTC_NXC", "BTC_NXT", "BTC_OMG", "BTC_OMNI", "BTC_PASC",
    "BTC_PINK", "BTC_POT", "BTC_PPC", "BTC_RADS", "BTC_SC", "BTC_STEEM", "BTC_STORJ",
    "BTC_STR", "BTC_STRAT", "BTC_SYS", "BTC_VIA", "BTC_VRC", "BTC_VTC", "BTC_XBC",
    "BTC_XCP", "BTC_XEM", "BTC_XMR", "BTC_XPM", "BTC_XRP", "BTC_XVC", "BTC_ZEC",
    "BTC_ZRX", "ETH_BCH", "ETH_CVC", "ETH_ETC", "ETH_GAS", "ETH_GNO", "ETH_GNT",
    "ETH_LSK", "ETH_OMG", "ETH_REP", "ETH_STEEM", "ETH_ZEC", "ETH_ZRX", "USDT_BCH",
    "USDT_BTC", "USDT_DASH", "USDT_ETC", "USDT_ETH", "USDT_LTC", "USDT_NXT", "USDT_REP",
    "USDT_STR", "USDT_XMR", "USDT_XRP", "USDT_ZEC", "XMR_BCN", "XMR_BLK", "XMR_BTCD",
    "XMR_DASH", "XMR_LTC", "XMR_MAID", "XMR_NXT", "XMR_ZEC", "BTC_REP", "BTC_RIC",
    "BTC_SBD" >>

\* @retry(stop_max_attempt_number=7, wait_random_min=1000, wait_random_max=2000)
stop_max_attempt_number == 7

\* Unix timestamps are kept as two base-10^9 digits, hi * 10^9 + lo, so that
\* the end sentinel 9999999999 keeps its value.
Limb == 10^9
Ts(n) == [hi |-> n \div Limb, lo |-> n % Limb]

\* self.end_timestamp = 9999999999
UNBOUNDED_END == [hi |-> 9, lo |-> 999999999]

\* self.period = 300
FIXED_PERIOD == 300

\* Python's None, for the optional strings and dates
None == "None"
NoDate == [y |-> 0, m |-> 0, d |-> 0]

----------------------------------------------------------------------------
(* Calendar arithmetic: datetime.utcfromtimestamp, strptime + mktime *)

\* days since 1970-01-01 of the proleptic Gregorian date y-m-d
DaysFromCivil(y, m, d) ==
    LET yy  == IF m <= 2 THEN y - 1 ELSE y
        era == yy \div 400
        yoe == yy - era * 400
        mp  == IF m > 2 THEN m - 3 ELSE m + 9
        doy == (153 * mp + 2) \div 5 + d - 1
        doe == yoe * 365 + yoe \div 4 - yoe \div 100 + doy
    IN  era * 146097 + doe - 719468

\* the Gregorian date of a day number
CivilFromDays(days) ==
    LET z   == days + 719468
        era == z \div 146097
        doe == z - era * 146097
        yoe == (doe - doe \div 1460 + doe \div 36524 - doe \div 146096) \div 365
        doy == doe - (365 * yoe + yoe \div 4 - yoe \div 100)
        mp  == (5 * doy + 2) \div 153
        d   == doy - (153 * mp + 2) \div 5 + 1
        m   == IF mp < 10 THEN mp + 3 ELSE mp - 9
        y   == yoe + era * 400 + (IF m <= 2 THEN 1 ELSE 0)
    IN  [y |-> y, m |-> m, d |-> d]

\* datetime.datetime.fromtimestamp(ts) in a zone `off` seconds east of UTC
fromtimestamp(ts, off) ==
    LET t    == ts + off
        date == CivilFromDays(t \div 86400)
        rem  == t % 86400
    IN  [year |-> date.y, month |-> date.m, day |-> date.d,
         hour |-> rem \div 3600, minute |-> (rem % 3600) \div 60,
         second |-> rem % 60]

\* variant: datetime.fromtimestamp on a machine four hours west of UTC
localfromtimestamp(ts) == fromtimestamp(ts, -14400)

\* datetime.datetime.utcfromtimestamp(ts)
utcfromtimestamp(ts) == fromtimestamp(ts, 0)

\* datetime comparison, as sort_values orders the datetime column
DtKey(dt) == <<dt.year, dt.month, dt.day, dt.hour, dt.minute, dt.second>>

RECURSIVE LexLess(_, _)
LexLess(a, b) ==
    IF a = <<>> THEN FALSE
    ELSE IF Head(a) # Head(b) THEN Head(a) < Head(b)
    ELSE LexLess(Tail(a), Tail(b))

DtLess(a, b) == LexLess(DtKey(a), DtKey(b))

\* get_timestamp(date_string): strptime gives midnight of the date, and
\* time.mktime reads the fields as local time. A date string "YYYY-MM-DD" is
\* modelled by its three numbers; date_string None reads the clock.
get_timestamp(date_string, zone, clock) ==
    IF date_string = NoDate
    THEN Ts(clock - zone)
    ELSE Ts(DaysFromCivil(date_string.y, date_string.m, date_string.d) * 86400 - zone)

----------------------------------------------------------------------------
(* Responses of the exchange *)

\* the record of the class docstring, and three more: one with the same
\* date and other prices, one five minutes later, one on the day before
SampleCandle ==
    [date |-> 1405699200, high |-> "0.0045388", low |-> "0.00403001",
     open |-> "0.00404545", close |-> "0.00427592", volume |-> "44.11655644",
     quoteVolume |-> "10259.29079097", weightedAverage |-> "0.00430015"]

TwinCandle ==
    [date |-> 1405699200, high |-> "0.0046", low |-> "0.0041",
     open |-> "0.0042", close |-> "0.0043", volume |-> "12.5",
     quoteVolume |-> "2900.0", weightedAverage |-> "0.0043103"]

EveCandle ==
    [date |-> 1405641300, high |-> "0.0040", low |-> "0.0039",
     open |-> "0.0039", close |-> "0.0040", volume |-> "3.0",
     quoteVolume |-> "750.0", weightedAverage |-> "0.004"]

RawCandles == {SampleCandle, TwinCandle, EveCandle}

RECURSIVE SeqsUpTo(_, _)
SeqsUpTo(S, n) ==
    IF n = 0 THEN {<<>>}
    ELSE LET shorter == SeqsUpTo(S, n - 1)
         IN  shorter \cup {Append(q, x) : q \in shorter, x \in S}

\* A parsed JSON text: kind "array" with items, kind "object" with fields (a
\* set of <<key, value>> pairs), kind "scalar" (a number, string or null), or
\* kind "invalid" for a text json.loads rejects.
Json(kind, items, fields) == [kind |-> kind, items |-> items, fields |-> fields]

INVALID_PAIR_MESSAGE == "Invalid currency pair."

ArrayBodies == {Json("array", q, {}) : q \in SeqsUpTo(RawCandles, MaxLen)}

ObjectBodies ==
    {Json("object", <<>>, f) :
        f \in {{<<"error", INVALID_PAIR_MESSAGE>>},
               {<<"error", "something else">>},
               {<<"error", "Invalid currency pair">>, <<"code", "400">>},
               {<<"message", "Invalid currency pair.">>},
               {}}}

OtherBodies == {Json("scalar", <<>>, {}), Json("invalid", <<>>, {})}

Bodies == ArrayBodies \cup ObjectBodies \cup OtherBodies

\* requests.get either raises or returns a response with a text
NoResponse == [net |-> "none", body |-> Json("invalid", <<>>, {})]
Responses ==
    {[net |-> "error", body |-> Json("invalid", <<>>, {})]}
        \cup {[net |-> "ok", body |-> b] : b \in Bodies}

----------------------------------------------------------------------------
(* Exceptions *)

Exc(kind, msg, pair, pairs) == [kind |-> kind, msg |-> msg, pair |-> pair, pairs |-> pairs]
NoError == Exc("none", "", "", <<>>)

Keys(body) == {f[1] : f \in body.fields}
Get(body, key) ==
    IF key \in Keys(body) THEN (CHOOSE f \in body.fields : f[1] = key)[2] ELSE None

----------------------------------------------------------------------------
(* CryptoData.parse_api_data_text *)

Ok(value) == [ok |-> TRUE, value |-> value, err |-> NoError]
Raise(err) == [ok |-> FALSE, value |-> Json("invalid", <<>>, {}), err |-> err]

\* raise Exception(f'{self.currency_pair} is not a valid currency pair. You
\* must use one of: \n{AVAILABLE_CURRENCY_PAIRS}')
InvalidPairException(currency_pair) ==
    Exc("InvalidCurrencyPair", "is not a valid currency pair. You must use one of:",
        currency_pair, AVAILABLE_CURRENCY_PAIRS)

\* raise Exception(f'API Error: {parsed_data["error"]}')
ApiException(message) == Exc("ApiError", message, "", <<>>)

\* variant: the message compared without its final period
error_exception_no_period(currency_pair, message) ==
    IF message = "Invalid currency pair"
    THEN InvalidPairException(currency_pair)
    ELSE ApiException(message)

\* the branch on parsed_data['error']
error_exception(currency_pair, message) ==
    IF message = INVALID_PAIR_MESSAGE
    THEN InvalidPairException(currency_pair)
    ELSE ApiException(message)

\* variant: every dict is taken for an error payload
is_error_payload_any_dict(body) == body.kind = "object"

\* isinstance(parsed_data, dict) and 'error' in parsed_data.keys()
is_error_payload(body) == body.kind = "object" /\ "error" \in Keys(body)

parse_api_data_text(currency_pair, body) ==
    IF body.kind = "invalid"
    THEN Raise(Exc("JSONDecodeError", "", "", <<>>))
    ELSE IF is_error_payload(body)
    THEN Raise(error_exception(currency_pair, Get(body, "error")))
    ELSE Ok(body)

----------------------------------------------------------------------------
(* CryptoData.build_dataframe *)

\* one row of data[cols]
Row(c) ==
    [datetime_utc |-> utcfromtimestamp(c.date), open |-> c.open, high |-> c.high,
     low |-> c.low, close |-> c.close, quoteVolume |-> c.quoteVolume,
     volume |-> c.volume, weightedAverage |-> c.weightedAverage]

\* data.sort_values('datetime'): for frames this short numpy's sort is an
\* insertion sort, which keeps the order of rows with equal keys
RECURSIVE Insert(_, _)
Insert(sorted, r) ==
    IF sorted = <<>> THEN <<r>>
    ELSE IF DtLess(r.datetime_utc, Head(sorted).datetime_utc)
    THEN <<r>> \o sorted
    ELSE <<Head(sorted)>> \o Insert(Tail(sorted), r)

RECURSIVE sort_values(_)
sort_values(rows) ==
    IF rows = <<>> THEN <<>>
    ELSE Insert(sort_values(SubSeq(rows, 1, Len(rows) - 1)), rows[Len(rows)])

NoData == [set |-> FALSE, rows |-> <<>>]
Frame(rows) == [set |-> TRUE, rows |-> rows]

Built(rows) == [ok |-> TRUE, data |-> Frame(rows), err |-> NoError]
BuildRaise(kind, msg) == [ok |-> FALSE, data |-> NoData, err |-> Exc(kind, msg, "", <<>>)]

\* pd.DataFrame(parsed_data) of a dict of scalars or of a scalar raises
\* ValueError; of an empty list or an empty dict it is a frame with no
\* columns, and data['date'] raises KeyError
build_dataframe(parsed_data) ==
    IF parsed_data.kind = "scalar" \/ (parsed_data.kind = "object" /\ parsed_data.fields # {})
    THEN BuildRaise("ValueError", "DataFrame constructor")
    ELSE IF parsed_data.kind # "array" \/ parsed_data.items = <<>>
    THEN BuildRaise("KeyError", "date")
    ELSE Built(sort_values([i \in 1..Len(parsed_data.items) |-> Row(parsed_data.items[i])]))

----------------------------------------------------------------------------
(* CryptoData.__init__ *)

\* str.upper on the pairs the model passes in
upper(currency_pair) ==
    CASE currency_pair = "usdt_btc" -> "USDT_BTC"
      [] currency_pair = "usdt_ltc" -> "USDT_LTC"
      [] OTHER -> currency_pair

\* if not end_date: self.end_timestamp = 9999999999
end_timestamp_of(end_date, zone, clock) ==
    IF end_date = NoDate
    THEN UNBOUNDED_END
    ELSE get_timestamp(end_date, zone, clock)

\* self.url, by its query parameters
Url(api, currency_pair, start, end, period) ==
    [command |-> api, currencyPair |-> currency_pair, start |-> start,
     end |-> end, period |-> period]

CryptoData(currency_pair, start_date, end_date, period, destination, zone, clock) ==
    LET pair  == upper(currency_pair)
        start == get_timestamp(start_date, zone, clock)
        end   == end_timestamp_of(end_date, zone, clock)
    IN  [currency_pair |-> pair, start_timestamp |-> start, end_timestamp |-> end,
         period |-> FIXED_PERIOD, api |-> "returnChartData",
         destination |-> destination,
         url |-> Url("returnChartData", pair, start, end, FIXED_PERIOD)]

NoClient == CryptoData("", NoDate, NoDate, 0, None, 0, 0)

----------------------------------------------------------------------------
(* CryptoData.save_data and the body of CryptoData.run *)

NoFile == [written |-> FALSE, rows |-> <<>>]

\* dataframe.to_csv(self.destination, index=False): with destination None it
\* returns the text and writes nothing; "open_error" fails before the file is
\* touched, "disk_full" after all rows but the last were written
save_data(dataframe, destination, old, io) ==
    IF ~dataframe.set
    THEN [ok |-> FALSE, file |-> old, wrote |-> FALSE,
          err |-> Exc("AttributeError", "to_csv", "", <<>>)]
    ELSE IF destination = None
    THEN [ok |-> TRUE, file |-> old, wrote |-> FALSE, err |-> NoError]
    ELSE IF io = "open_error"
    THEN [ok |-> FALSE, file |-> old, wrote |-> FALSE,
          err |-> Exc("IOError", destination, "", <<>>)]
    ELSE IF io = "disk_full"
    THEN [ok |-> FALSE, wrote |-> TRUE,
          file |-> [written |-> TRUE,
                    rows |-> SubSeq(dataframe.rows, 1, Len(dataframe.rows) - 1)],
          err |-> Exc("IOError", destination, "", <<>>)]
    ELSE [ok |-> TRUE, wrote |-> TRUE,
          file |-> [written |-> TRUE, rows |-> dataframe.rows], err |-> NoError]

NoParse == [ok |-> FALSE, value |-> Json("invalid", <<>>, {}), err |-> NoError]
NoResult == [kind |-> "none", rows |-> <<>>]

\* variant: the body fetches on every execution
needs_fetch_always(d) == TRUE

\* if self.data is None:
needs_fetch(d) == ~d.set

\* variant: the body saves whatever the argument
wants_save_always(sv) == TRUE

\* if save:
wants_save(sv) == sv

\* response = self.get_api_data()
\* self.build_dataframe(self.parse_api_data_text(response))
Fetch(client, d, old_response, old_parsed, resp) ==
    IF ~needs_fetch(d)
    THEN [ok |-> TRUE, data |-> d, stages |-> <<>>, err |-> NoError,
          response |-> old_response, parsed |-> old_parsed]
    ELSE IF resp.net = "error"
    THEN [ok |-> FALSE, data |-> d, stages |-> <<"get_api_data">>,
          err |-> Exc("NetworkError", "", "", <<>>),
          response |-> resp, parsed |-> NoParse]
    ELSE LET p == parse_api_data_text(client.currency_pair, resp.body)
             b == build_dataframe(p.value)
         IN  IF ~p.ok
             THEN [ok |-> FALSE, data |-> d, err |-> p.err,
                   stages |-> <<"get_api_data", "parse_api_data_text">>,
                   response |-> resp, parsed |-> p]
             ELSE [ok |-> b.ok, data |-> IF b.ok THEN b.data ELSE d, err |-> b.err,
                   stages |-> <<"get_api_data", "parse_api_data_text", "build_dataframe">>,
                   response |-> resp, parsed |-> p]

\* one execution of the body of run(self, save)
RunBody(client, d, f, sv, old_response, old_parsed, resp, io) ==
    LET fetched == Fetch(client, d, old_response, old_parsed, resp)
        saved   == save_data(fetched.data, client.destination, f, io)
        base    == [ok |-> fetched.ok, data |-> fetched.data, file |-> f,
                    wrote |-> FALSE, stages |-> fetched.stages, err |-> fetched.err,
                    response |-> fetched.response, parsed |-> fetched.parsed,
                    result |-> NoResult]
    IN  IF ~fetched.ok
        THEN base
        ELSE IF wants_save(sv)
        THEN [base EXCEPT !.ok = saved.ok, !.file = saved.file, !.wrote = saved.wrote,
                          !.stages = Append(fetched.stages, "save_data"),
                          !.err = saved.err,
                          !.result = IF saved.ok THEN [kind |-> "self", rows |-> <<>>]
                                     ELSE NoResult]
        ELSE [base EXCEPT !.result = [kind |-> "data", rows |-> fetched.data.rows]]

----------------------------------------------------------------------------
(* The retry wrapper *)

\* variants: stop one attempt late, one attempt early
should_stop_late(attempt_number) == attempt_number > stop_max_attempt_number
should_stop_early(attempt_number) == attempt_number >= stop_max_attempt_number - 1

\* stop_max_attempt_number=7: stop after the attempt with this number
should_stop(attempt_number) == attempt_number >= stop_max_attempt_number

----------------------------------------------------------------------------
(* Inputs of the model *)

Zones == {0, -14400}
Clocks == {1427864400}

\* '2015-01-01', the default start_date of __init__
DefaultStart == [y |-> 2015, m |-> 1, d |-> 1]
EndDates == {NoDate, [y |-> 2015, m |-> 3, d |-> 1]}
\* what the command line passes, and what a caller of the class passes
CliPairs == {"USDT_LTC"}
CliDests == {None}
PairArgs == {"usdt_btc"}
Destinations == {None, "/data/prices.csv"}
IoOutcomes == {"ok", "open_error", "disk_full"}

\* datetime.datetime.strftime(utcnow() + timedelta(-30), '%Y-%m-%d')
default_start_date(clock) == CivilFromDays((clock - 30 * 86400) \div 86400)

\* f'{home_dir}/{CURRENCY_PAIR}_{PERIOD}.csv'
home_destination(currency_pair, period) ==
    CASE currency_pair = "USDT_LTC" /\ period = 14400 -> "/home/user/USDT_LTC_14400.csv"
      [] currency_pair = "usdt_btc" /\ period = 14400 -> "/home/user/usdt_btc_14400.csv"
      [] OTHER -> "/home/user/pair_period.csv"

\* DESTINATION: SAVE is True, so a missing --dest becomes the home path
cli_destination(dest, currency_pair, period) ==
    IF dest = None THEN home_destination(currency_pair, period) ELSE dest

\* END_DATE = args.end_date
cli_end_date(end_date_arg) == end_date_arg

----------------------------------------------------------------------------
(* State machine *)

Init ==
    /\ pc = "new"
    /\ viaCLI = FALSE
    /\ tz \in Zones
    /\ now \in Clocks
    /\ self = NoClient
    /\ data = NoData
    /\ file = NoFile
    /\ save = FALSE
    /\ attempt = 0
    /\ fails = 0
    /\ calls = 0
    /\ response = NoResponse
    /\ parsed = NoParse
    /\ stages = <<>>
    /\ gets = 0
    /\ writes = 0
    /\ lastErr = NoError
    /\ error = NoError
    /\ result = NoResult

\* the __main__ block: parse the arguments, build the client, call
\* client.run(save=True), after which the program ends
Main(currency_pair, dest, end_date_arg) ==
    /\ pc = "new"
    /\ pc' = "running"
    /\ viaCLI' = TRUE
    /\ self' = CryptoData(currency_pair, default_start_date(now),
                          cli_end_date(end_date_arg), 14400,
                          cli_destination(dest, currency_pair, 14400), tz, now)
    /\ save' = TRUE
    /\ calls' = 1
    /\ UNCHANGED <<tz, now, data, file, attempt, fails, response, parsed, stages,
                   gets, writes, lastErr, error, result>>

\* a caller of the class builds a client
Construct(currency_pair, end_date, destination) ==
    /\ pc = "new"
    /\ pc' = "idle"
    /\ self' = CryptoData(currency_pair, DefaultStart, end_date, 14400, destination,
                          tz, now)
    /\ UNCHANGED <<viaCLI, tz, now, data, file, save, attempt, fails, calls, response,
                   parsed, stages, gets, writes, lastErr, error, result>>

\* a caller of the class calls client.run(save=sv)
CallRun(sv) ==
    /\ ~viaCLI
    /\ pc \in {"idle", "returned", "raised"}
    /\ calls < MaxCalls
    /\ pc' = "running"
    /\ save' = sv
    /\ calls' = calls + 1
    /\ attempt' = 0
    /\ fails' = 0
    /\ gets' = 0
    /\ writes' = 0
    /\ stages' = <<>>
    /\ lastErr' = NoError
    /\ error' = NoError
    /\ result' = NoResult
    /\ UNCHANGED <<viaCLI, tz, now, self, data, file, response, parsed>>

\* one attempt of the retry wrapper: call the body of run; return its value,
\* or on an exception stop and re-raise it, or sleep and go round again
Attempt(resp, io) ==
    /\ pc = "running"
    /\ \E out \in {RunBody(self, data, file, save, response, parsed, resp, io)},
          n \in {attempt + 1} :
           /\ attempt' = n
           /\ data' = out.data
           /\ file' = out.file
           /\ response' = out.response
           /\ parsed' = out.parsed
           /\ stages' = out.stages
           /\ gets' = IF out.stages # <<>> /\ Head(out.stages) = "get_api_data"
                      THEN gets + 1 ELSE gets
           /\ writes' = IF out.wrote THEN writes + 1 ELSE writes
           /\ lastErr' = out.err
           /\ fails' = IF out.ok THEN fails ELSE fails + 1
           /\ result' = IF out.ok THEN out.result ELSE NoResult
           /\ error' = IF ~out.ok /\ should_stop(n) THEN out.err ELSE NoError
           /\ pc' = IF out.ok THEN "returned"
                    ELSE IF should_stop(n) THEN "raised" ELSE "running"
    /\ UNCHANGED <<viaCLI, tz, now, self, save, calls>>

\* the environment answers only the calls the body makes: a response when
\* it fetches, an outcome of the write when it saves
Offered(d) == IF needs_fetch(d) THEN Responses ELSE {NoResponse}
IoChoices(sv) == IF wants_save(sv) THEN IoOutcomes ELSE {"ok"}

Next ==
    \/ \E p \in CliPairs, dest \in CliDests, e \in EndDates : Main(p, dest, e)
    \/ \E p \in PairArgs, e \in EndDates, dest \in Destinations : Construct(p, e, dest)
    \/ \E sv \in BOOLEAN : CallRun(sv)
    \/ \E resp \in Offered(data), io \in IoChoices(save) : Attempt(resp, io)

Spec == Init /\ [][Next]_vars

TypeOK ==
    /\ pc \in {"new", "idle", "running", "returned", "raised"}
    /\ attempt \in 0..(stop_max_attempt_number + 1)
    /\ fails \in 0..attempt
    /\ calls \in 0..MaxCalls

----------------------------------------------------------------------------
(* Helpers of the properties *)

HasErrorKey(body) == body.kind = "object" /\ \E f \in body.fields : f[1] = "error"
ErrorMessage(body) == (CHOOSE f \in body.fields : f[1] = "error")[2]

ParseCalled == parsed # NoParse

IsPrefix(a, b) == Len(a) <= Len(b) /\ \A i \in 1..Len(a) : a[i] = b[i]

SortedByDatetime(rows) ==
    \A i \in 1..Len(rows), j \in 1..Len(rows) :
        i < j => ~DtLess(rows[j].datetime_utc, rows[i].datetime_utc)

Count(q, x) == Cardinality({i \in 1..Len(q) : q[i] = x})

\* rows holds, for every raw candle, as many rows with its values as items
\* holds copies of it
PermutationOf(rows, items) ==
    /\ Len(rows) = Len(items)
    /\ \A c \in RawCandles :
          Count(items, c) =
              Cardinality({i \in 1..Len(rows) :
                  /\ rows[i].open = c.open /\ rows[i].high = c.high
                  /\ rows[i].low = c.low /\ rows[i].close = c.close
                  /\ rows[i].volume = c.volume
                  /\ rows[i].quoteVolume = c.quoteVolume
                  /\ rows[i].weightedAverage = c.weightedAverage})

SampleRow(hour) ==
    [datetime_utc |-> [year |-> 2014, month |-> 7, day |-> 18, hour |-> hour,
                       minute |-> 0, second |-> 0],
     open |-> "0.00404545", high |-> "0.0045388", low |-> "0.00403001",
     close |-> "0.00427592", quoteVolume |-> "10259.29079097",
     volume |-> "44.11655644", weightedAverage |-> "0.00430015"]

----------------------------------------------------------------------------
(* Properties *)

\* C1: when every attempt of run() fails, the wrapper makes exactly 7
\* attempts, never more, and then raises the exception of the 7th attempt;
\* nothing is returned.
C1_ExhaustedRetriesRaise ==
    /\ attempt <= 7
    /\ (pc = "running" => fails = attempt /\ attempt < 7)
    /\ (fails = 7 => pc = "raised")
    /\ (pc = "raised" =>
          /\ attempt = 7 /\ fails = 7
          /\ error = lastErr /\ error.kind # "none"
          /\ result = NoResult)

\* a run() whose fetch succeeded and whose seven saves all failed
C1_Witness ==
    pc = "raised" /\ fails = 7 /\ error.kind = "IOError" /\ data.set

\* C2: if the first k attempts fail, k in 0..6, and attempt k+1 succeeds,
\* run() returns the value of attempt k+1 after exactly k+1 attempts and
\* raises nothing; fewer than 7 failures never raise.
C2_SuccessAfterFailures ==
    /\ (pc = "raised" => fails > 6)
    /\ (pc = "returned" =>
          /\ fails \in 0..6 /\ attempt = fails + 1
          /\ error = NoError /\ lastErr = NoError
          /\ result = (IF save THEN [kind |-> "self", rows |-> <<>>]
                       ELSE [kind |-> "data", rows |-> data.rows])
          /\ data.set)

\* six failures, then success on the seventh attempt
C2_Witness == pc = "returned" /\ fails = 6 /\ attempt = 7

\* C3 as stated: every retry attempt issues a new HTTP GET before anything
\* else.
C3_Original == attempt >= 2 => (stages # <<>> /\ Head(stages) = "get_api_data")

\* C3 amended: a retry after a failed fetch, parse or build (self.data still
\* None) starts with a new GET; a retry after a failed save (self.data built)
\* issues no GET and calls save_data alone.
C3_RetryFetchesOnlyWithoutData ==
    [][(pc = "running" /\ attempt >= 1 /\ attempt' = attempt + 1) =>
          IF lastErr.kind = "IOError"
          THEN /\ data.set
               /\ stages' = <<"save_data">>
               /\ gets' = gets /\ response' = response /\ data' = data
          ELSE /\ ~data.set
               /\ Head(stages') = "get_api_data"
               /\ gets' = gets + 1]_vars

\* a retry that went straight to save_data
C3_Witness == attempt >= 2 /\ stages = <<"save_data">> /\ gets = 1 /\ fails >= 1

\* C4 as stated: only a JSON array is returned by parse_api_data_text.
C4_Original == (ParseCalled /\ parsed.ok) => response.body.kind = "array"

\* C4 amended: parse_api_data_text fails exactly on a text that is not JSON
\* and on a JSON object with an "error" key; every other value, an array but
\* also an object without an "error" key, is returned unchanged.
C4_OnlyErrorKeyRejected ==
    ParseCalled =>
        /\ response.net = "ok"
        /\ parsed.ok <=> (response.body.kind # "invalid" /\ ~HasErrorKey(response.body))
        /\ parsed.ok => parsed.value = response.body /\ parsed.err = NoError

\* an object without an "error" key came back as data
C4_Witness ==
    ParseCalled /\ parsed.ok /\ response.body.kind = "object"
        /\ response.body.fields # {}

\* C5: an object with an "error" key always fails: the message "Invalid
\* currency pair." gives the invalid-pair error with the complete pair list,
\* any other message m gives the API error carrying m; no data is returned.
C5_ErrorClassified ==
    (ParseCalled /\ HasErrorKey(response.body)) =>
        /\ ~parsed.ok
        /\ (attempt >= 1 => lastErr = parsed.err)
        /\ ~data.set /\ result = NoResult
        /\ IF ErrorMessage(response.body) = "Invalid currency pair."
           THEN /\ parsed.err.kind = "InvalidCurrencyPair"
                /\ parsed.err.pair = self.currency_pair
                /\ parsed.err.pairs = AVAILABLE_CURRENCY_PAIRS
                /\ Len(parsed.err.pairs) = 99
           ELSE /\ parsed.err.kind = "ApiError"
                /\ parsed.err.msg = ErrorMessage(response.body)

\* the invalid-pair error was raised to the caller after the retries
C5_Witness ==
    pc = "raised" /\ error.kind = "InvalidCurrencyPair" /\ Len(error.pairs) = 99

\* C6 as stated: a successful run(save=True) has written the series to the
\* destination and returns the client; a successful run(save=False) returns
\* the series and writes nothing.
C6_Original ==
    pc = "returned" =>
        IF save
        THEN /\ result = [kind |-> "self", rows |-> <<>>]
             /\ data.set
             /\ writes >= 1
             /\ file = [written |-> TRUE, rows |-> data.rows]
        ELSE /\ result = [kind |-> "data", rows |-> data.rows]
             /\ writes = 0

\* C6 amended: a successful run(save=True) returns the client and, when a
\* destination is configured, has written the whole series to it; with
\* destination None nothing is written. A successful run(save=False) returns
\* the series and writes nothing in any attempt.
C6_SaveOrReturn ==
    pc = "returned" =>
        /\ data.set
        /\ response.net = "ok" /\ ParseCalled /\ parsed.ok
        /\ SortedByDatetime(data.rows)
        /\ IF save
           THEN /\ result = [kind |-> "self", rows |-> <<>>]
                /\ IF self.destination # None
                   THEN /\ writes >= 1
                        /\ file = [written |-> TRUE, rows |-> data.rows]
                   ELSE writes = 0 /\ file = NoFile
           ELSE /\ result = [kind |-> "data", rows |-> data.rows]
                /\ writes = 0

\* a two-row series was fetched and written in one run(save=True)
C6_Witness ==
    /\ pc = "returned" /\ save /\ calls = 1 /\ gets = 1
    /\ self.destination # None
    /\ Len(data.rows) = 2 /\ file.rows = data.rows

\* C7: for every sequence of raw candles build_dataframe produces a series
\* that is a permutation of the input, sorted non-decreasing by datetime.
C7_Original ==
    (stages # <<>> /\ stages[Len(stages)] \in {"build_dataframe", "save_data"}
        /\ Head(stages) = "get_api_data" /\ response.body.kind = "array") =>
        /\ data.set
        /\ PermutationOf(data.rows, response.body.items)
        /\ SortedByDatetime(data.rows)

\* C8: no request of a client built by the command line has the sentinel
\* 9999999999 as its end timestamp.
C8_Original ==
    (viaCLI /\ gets > 0) =>
        /\ self.end_timestamp # [hi |-> 9, lo |-> 999999999]
        /\ self.url.end # [hi |-> 9, lo |-> 999999999]

\* C9 as stated: the candle with date 1405699200 gets datetime_utc
\* 2014-07-18T12:00:00, its other fields unchanged.
C9_Original ==
    (data.set /\ response.body.items = <<SampleCandle>>) => data.rows = <<SampleRow(12)>>

\* C9 amended: the candle with date 1405699200 gets datetime_utc
\* 2014-07-18T16:00:00, the UTC time of that timestamp, its other fields
\* unchanged.
C9_SampleCandleRow ==
    (data.set /\ response.body.items = <<SampleCandle>>) => data.rows = <<SampleRow(16)>>

\* the sample response was built into a frame
C9_Witness ==
    data.set /\ response.body.items = <<SampleCandle>> /\ Len(data.rows) = 1

\* C10: a file is written only from a self.data built from a response that
\* parse_api_data_text accepted, never from an error payload or a failed
\* fetch; once set, self.data is never reset or replaced.
C10_WritesOnlyBuiltData ==
    [][/\ data.set => data' = data
       /\ (file' # file \/ writes' > writes) =>
             /\ data'.set
             /\ IsPrefix(file'.rows, data'.rows)
             /\ response'.net = "ok"
             /\ response'.body.kind # "invalid"
             /\ ~HasErrorKey(response'.body)
             /\ parsed'.ok /\ parsed'.value = response'.body
             /\ PermutationOf(data'.rows, response'.body.items)]_vars

\* the second run() call on a client wrote the data the first one fetched
C10_Witness ==
    calls = 2 /\ gets = 0 /\ writes >= 1 /\ file.written /\ file.rows = data.rows
        /\ fails >= 1

====
